---- MODULE Spec2Model ----
(***************************************************************************)
(* A model of engine_sim/sim.py: the Cylinder gas/kinematic model and the  *)
(* Engine controller (stroke sequencer, starter, idle governor, shaft      *)
(* integration).                                                           *)
(*                                                                         *)
(* The program computes in floating point; the model computes in integers  *)
(* with these units:                                                       *)
(*   angle        pi/8 rad (PI = 8 units, so 4*pi = 32 units)              *)
(*   time         1 cs = 0.01 s                                            *)
(*   angular vel. angle units per second                                   *)
(*   length       0.01 mm                                                  *)
(*   area         mm^2                                                     *)
(*   volume       0.01 mm^3 (length unit times area unit)                  *)
(*   temperature  0.01 K                                                   *)
(*   mass         1e-7 kg                                                  *)
(*   pressure     Pa,  force N,  torque 0.01 N m                           *)
(* Products that do not fit 32 bits are formed by MulDiv, which rounds     *)
(* the exact quotient toward zero.                                         *)
(***************************************************************************)
EXTENDS Integers, Sequences, FiniteSets, TLC

\* ---------------------------------------------------------------- bounds
\* Engine.simulate calls explored.
MaxSteps == 4
\* Angular speeds (angle units per second) beyond this are not explored.
MaxOmega == 100000000
\* Crank rotations (angle units) beyond this are not explored.
MaxRotation == 1000000000
\* Net crank torques (0.01 N m) beyond this are not explored.
MaxMoment == 3000000
\* The delta times handed to Engine.simulate, in cs: 0, 0.01 s, 1 s, 10 s.
DeltaTimes == {0, 1, 100, 1000}
\* The throttle values the driving loop sets (demo.py sets 0 and 1).
Throttles == {0, 1}

\* ------------------------------------------------------------ arithmetic
Abs(x) == IF x < 0 THEN -x ELSE x

Sign(x) == IF x < 0 THEN -1 ELSE 1

Min(a, b) == IF a < b THEN a ELSE b

Max(a, b) == IF a > b THEN a ELSE b

\* <<q, r>> with a * b = q * c + r and 0 <= r < c, for a, b >= 0 and c > 0,
\* formed without the product a * b.
RECURSIVE MulDivPair(_, _, _)
MulDivPair(a, b, c) ==
    IF b = 0 THEN <<0, 0>>
    ELSE LET h == MulDivPair(a, b \div 2, c)
             add == IF b % 2 = 1 THEN a ELSE 0
             r2 == 2 * h[2] + (add % c)
         IN  <<2 * h[1] + (add \div c) + (r2 \div c), r2 % c>>

\* a * b / c rounded toward zero, c > 0.
MulDiv(a, b, c) == Sign(a) * Sign(b) * MulDivPair(Abs(a), Abs(b), c)[1]

\* The integer square root of n >= 0, by bisection on [lo, hi].
RECURSIVE SqrtBetween(_, _, _)
SqrtBetween(n, lo, hi) ==
    IF lo >= hi THEN lo
    ELSE LET mid == (lo + hi + 1) \div 2
         IN  IF mid * mid <= n THEN SqrtBetween(n, mid, hi)
             ELSE SqrtBetween(n, lo, mid - 1)

Sqrt(n) == SqrtBetween(n, 0, 46340)

\* math.pi in angle units.
PI == 8

\* 1000 * sin(k * pi/8) for k = 0..4.
SinQuarter == <<0, 383, 707, 924, 1000>>

\* 1000 * math.sin(theta), theta in angle units (any integer).
Sin(theta) ==
    LET k == theta % (2 * PI)
    IN  IF k <= 4 THEN SinQuarter[k + 1]
        ELSE IF k <= 8 THEN SinQuarter[8 - k + 1]
        ELSE IF k <= 12 THEN -SinQuarter[k - 8 + 1]
        ELSE -SinQuarter[16 - k + 1]

\* 1000 * math.cos(theta).
Cos(theta) == Sin(theta + 4)

\* 1000 * x ** (gamma - 1) with gamma = 1.4, for 500 <= x <= 2000 (x in
\* thousandths): linear between 0.5, 0.75, 1, 1.5 and 2.
Pow04(x) ==
    IF x <= 750 THEN 758 + ((x - 500) * 133) \div 250
    ELSE IF x <= 1000 THEN 891 + ((x - 750) * 109) \div 250
    ELSE IF x <= 1500 THEN 1000 + ((x - 1000) * 176) \div 500
    ELSE 1176 + ((x - 1500) * 144) \div 500

\* ------------------------------------------------------------- constants
\* constants.py
stoichiometric_air_fuel_ratio_x10 == 147
fuel_burn_per_second_x10 == 1
fuel_energy_per_kg == 44000
exhaust_R == 287
atmospheric_pressure == 101325
\* boltzmann_constant * avogadro_constant / molar mass, J/(kg K), per species.
gas_constant_fuel == 73
gas_constant_air == 287
gas_constant_exhaust == 291

\* sim.py
ROOM_TEMP == (273 + 21) * 100

\* Engine.__init__
cylinder_radius_mm == 100
cylinder_height_mm == 80
rod_length_mm == 60
crank_radius_mm == 15
crank_mass_kg == 2
\* 0.8 N m, in 0.01 N m.
starter_torque == 80
\* 0.8, in tenths.
friction_coefficient_x10 == 8
\* 0.001 kg and 0.000001 kg, in 1e-7 kg.
fuel_volume_per_cycle == 10000
idle_fuel_volume_per_cycle == 10
idle_rpm == 1000
\* Engine.start: the starter duration, 10.0 s, in cs.
starter_duration == 1000

Cyls == 0 .. 3

fire_order == [idx \in Cyls |-> <<0, 2, 3, 1>>[idx + 1]]

\* The geometry every Cylinder is constructed with, in 0.01 mm.
radius == cylinder_radius_mm * 100
height == cylinder_height_mm * 100
rod_length == rod_length_mm * 100
crank_radius == crank_radius_mm * 100

\* -------------------------------------------------------------- Cylinder
\* A Cylinder as constructed by Cylinder.__init__ (crank_rotation 0.0).
area == (355 * cylinder_radius_mm * cylinder_radius_mm) \div 113

min_volume == (height - (rod_length + crank_radius)) * area

piston_travel_from_TDC(theta) ==
    LET r == crank_radius
        l == rod_length
        rsin == MulDiv(r, Sin(theta), 1000)
    IN  MulDiv(r, Cos(theta), 1000) + Sqrt(Max(0, l * l - rsin * rsin)) - l

\* Cylinder.volume at each rotation of one shaft revolution (the sine and
\* cosine have period 2 pi).
VolumeAt == [k \in 0 .. (2 * PI - 1) |-> min_volume + piston_travel_from_TDC(k) * area]

volume(theta) == VolumeAt[theta % (2 * PI)]

NewCylinder ==
    [crank_rotation |-> 0,
     crank_angular_velocity |-> 0,
     temperature |-> ROOM_TEMP,
     combusting |-> FALSE,
     mode |-> "N/A",
     previous_volume |-> volume(0),
     contents |-> [fuel |-> 0, air |-> 0, exhaust |-> 0]]

\* boltzmann_constant times the particle count of each species, in 1e-7 J/K.
fuel_particles(c) == c.contents.fuel * gas_constant_fuel

air_particles(c) == c.contents.air * gas_constant_air

exhaust_particles(c) == c.contents.exhaust * gas_constant_exhaust

pressure(c) ==
    LET particle_count == fuel_particles(c) + air_particles(c) + exhaust_particles(c)
        v == volume(c.crank_rotation)
    IN  Sign(v) * MulDiv(particle_count, c.temperature, Abs(v) \div 100)

\* Cylinder.rpm: omega * 60 / (2 pi), omega in pi/8 per second.
cylinder_rpm(c) == MulDiv(c.crank_angular_velocity, 60, 2 * PI)

piston_force(c) == MulDiv(pressure(c) - atmospheric_pressure, area, 1000000)

crank_moment(c) ==
    MulDiv(piston_force(c), crank_radius * Sin(c.crank_rotation), 1000000)

\* Cylinder.__apply_angular_velocity
apply_angular_velocity(c, deltaTime) ==
    LET rotation == c.crank_rotation + MulDiv(c.crank_angular_velocity, deltaTime, 100)
    IN  [c EXCEPT !.crank_rotation =
            IF rotation > 4 * PI THEN rotation - 4 * PI ELSE rotation]

spark(c) == [c EXCEPT !.combusting = TRUE]

\* In thousandths of kJ/(kg K).
cp_exhaust(c) == 1080 + (8 * (c.temperature - 30000)) \div 10000

cp_air(c) == 1005 + (c.temperature - 30000) \div 100000

\* The 1e-9 kg of the denominator is 1/100 of a mass unit.
average_cp(c) ==
    LET mass_ex == c.contents.exhaust
        mass_air == c.contents.air
    IN  MulDiv(cp_exhaust(c) * mass_ex + cp_air(c) * mass_air, 100,
               100 * (mass_ex + mass_air) + 1)

\* fuel_burn_per_second * 0.1 * deltaTime
BurnLimit(deltaTime) == fuel_burn_per_second_x10 * 1000 * deltaTime

\* BurnedFuel without the cap by the fuel and air held.
BurnedFuelUncapped(c, deltaTime) == BurnLimit(deltaTime)

\* The fuel __combust burns: capped by the fuel held, then by the air held.
BurnedFuel(c, deltaTime) ==
    LET fuel_quantity == Min(BurnLimit(deltaTime), c.contents.fuel)
        air_quantity == (fuel_quantity * stoichiometric_air_fuel_ratio_x10) \div 10
    IN  IF air_quantity > c.contents.air
        THEN (c.contents.air * 10) \div stoichiometric_air_fuel_ratio_x10
        ELSE fuel_quantity

BurnedAir(c, deltaTime) ==
    LET fuel_quantity == Min(BurnLimit(deltaTime), c.contents.fuel)
        air_quantity == (fuel_quantity * stoichiometric_air_fuel_ratio_x10) \div 10
    IN  IF air_quantity > c.contents.air THEN c.contents.air ELSE air_quantity

\* Cylinder.__combust
combust(c, deltaTime) ==
    IF Cos(c.crank_rotation) < 0 THEN c
    ELSE LET fuel_quantity == BurnedFuel(c, deltaTime)
             air_quantity == BurnedAir(c, deltaTime)
             mass == fuel_quantity + air_quantity + c.contents.exhaust
             combustion_energy == MulDiv(fuel_quantity, fuel_energy_per_kg, 1000)
         IN  IF combustion_energy = 0 THEN [c EXCEPT !.combusting = FALSE]
             ELSE IF average_cp(c) = 0 THEN [c EXCEPT !.combusting = FALSE]
             ELSE [c EXCEPT
                     !.temperature = @ + MulDiv(MulDiv(fuel_quantity,
                                                       fuel_energy_per_kg * 100, mass),
                                                1000, average_cp(c)),
                     !.contents = [fuel |-> @.fuel - fuel_quantity,
                                   air |-> @.air - air_quantity,
                                   exhaust |-> @.exhaust + (fuel_quantity + air_quantity)]]

inject(c, fuel, air) ==
    [c EXCEPT !.contents = [@ EXCEPT !.fuel = @ + fuel, !.air = @ + air]]

max_exhaust_mass(c) ==
    MulDiv(MulDiv(volume(c.crank_rotation), 1, 100), atmospheric_pressure,
           exhaust_R * c.temperature)

\* Cylinder.exhaust
exhaust(c) ==
    LET left == c.contents.exhaust - max_exhaust_mass(c)
    IN  [c EXCEPT !.contents = [@ EXCEPT !.exhaust = IF left < 0 THEN 0 ELSE left],
                  !.temperature = (273 + 100) * 100]

\* ClampTemperature without its lower limit.
ClampTemperatureNoFloor(t) == Min(t, 4000 * 100)

\* The clamp that ends Cylinder.simulate's temperature update.
ClampTemperature(t) == Max(Min(t, 4000 * 100), 250 * 100)

\* previous_volume / end_volume is strictly between 1e-4 and 1e4.
RatioInRange(previous, end) ==
    /\ previous # 0
    /\ Sign(previous) = Sign(end)
    /\ Abs(previous) > Abs(end) \div 10000
    /\ Abs(end) > Abs(previous) \div 10000

\* The temperature after the polytropic correction, the relaxation toward
\* ROOM_TEMP and the clamp.
NextTemperature(t, previous, end) ==
    LET ratio == Max(500, Min(2000, MulDiv(Abs(previous), 1000, Abs(end))))
        corrected == IF RatioInRange(previous, end)
                     THEN MulDiv(t, Pow04(ratio), 1000) ELSE t
        relaxed == corrected - MulDiv(corrected - ROOM_TEMP, 1, 10000)
    IN  ClampTemperature(relaxed)

\* Cylinder.simulate
cylinder_simulate(c, deltaTime) ==
    LET burned == IF c.combusting THEN combust(c, deltaTime) ELSE c
        moved == apply_angular_velocity(burned, deltaTime)
        end_volume == volume(moved.crank_rotation)
    IN  [moved EXCEPT
            !.temperature = NextTemperature(@, moved.previous_volume, end_volume),
            !.previous_volume = end_volume]

\* ---------------------------------------------------------------- Engine
VARIABLES
    cylinders,        \* Engine.cylinders: index -> Cylinder
    cylinder_stages,  \* Engine.cylinder_stages
    starter_timer,    \* Engine.starter_timer, cs
    throttle,         \* Engine.throttle
    pc,               \* where Engine.simulate stands: "idle" between calls,
                      \* "cylinders" after do_computer, "shaft" after the
                      \* Cylinder.simulate loop
    deltaTime,        \* the deltaTime of the Engine.simulate call in progress
    issued,           \* the call the last do_computer made on each cylinder
    injected,         \* the <<fuel, air>> the last do_computer passed to inject
    since_start,      \* cs stepped since the last start(), -1 before any
    steps,            \* Engine.simulate calls completed
    fired             \* the cycle harness's counts: the calls do_computer made on
                      \* cylinder 0 and the angle cylinder 0 has turned

vars == <<cylinders, cylinder_stages, starter_timer, throttle, pc, deltaTime,
          issued, injected, since_start, steps, fired>>

\* Engine.__prepare_cylinders: the rotation cylinder i starts at.
InitialRotation(i) == i * ((4 * PI) \div Cardinality(Cyls)) + PI \div 8

\* Engine.moment_of_inertia, kg (0.01 mm)^2.
moment_of_inertia == crank_mass_kg * crank_radius * crank_radius

\* angular_acceleration * deltaTime for a torque (0.01 N m) over deltaTime
\* (cs), in angle units per second; pi is 355/113.
AngularVelocityDelta(torque, dt) ==
    MulDiv(torque, dt * 8 * 113 * 1000, 355 * (moment_of_inertia \div 1000))

\* Engine.rpm
engine_rpm(cyls) ==
    MulDiv(cylinder_rpm(cyls[0]) + cylinder_rpm(cyls[1])
           + cylinder_rpm(cyls[2]) + cylinder_rpm(cyls[3]), 1, Cardinality(Cyls))

\* run_starter accelerating the first cylinder only.
run_starter_first_only(cyls, dt) ==
    [cyls EXCEPT ![0].crank_angular_velocity = @ + AngularVelocityDelta(starter_torque, dt)]

\* Engine.run_starter
run_starter(cyls, dt) ==
    [idx \in Cyls |->
        [cyls[idx] EXCEPT !.crank_angular_velocity =
            @ + AngularVelocityDelta(starter_torque, dt)]]

\* is_starting with >= for >.
is_starting_inclusive(timer) == timer >= 0

\* do_computer: is_starting
is_starting(timer) == timer > 0

\* fuel_volume without the idle override.
fuel_volume_no_governor(cyls, thr) == fuel_volume_per_cycle * thr

\* do_computer: the fuel handed to inject.
fuel_volume(cyls, thr) ==
    IF engine_rpm(cyls) < idle_rpm THEN idle_fuel_volume_per_cycle
    ELSE fuel_volume_per_cycle * thr

\* do_computer: the stage computed from a crank rotation.
stage(idx, rotation) == (fire_order[idx] + ((rotation % (4 * PI)) \div PI)) % 4

Stage(idx) == stage(idx, cylinders[idx].crank_rotation)

\* do_computer: the loop body does not `continue` for idx.
NeedsAction(idx) == ~(cylinder_stages[idx] = Stage(idx) /\ Stage(idx) # 3)

\* do_computer: the loop reaches idx; every case arm ends in `break`, which
\* leaves the for loop.
Reached(idx) == \A j \in Cyls : j < idx => ~NeedsAction(j)

Handled(idx) == Reached(idx) /\ NeedsAction(idx)

\* The call each stage makes.
StageCall(s) ==
    CASE s = 0 -> "inject" [] s = 1 -> "label" [] s = 2 -> "spark" [] s = 3 -> "exhaust"

\* do_computer: the match statement.
StageAction(c, s, fuel) ==
    CASE s = 0 -> [inject(c, fuel, (fuel * stoichiometric_air_fuel_ratio_x10) \div 10)
                     EXCEPT !.mode = "INJECT"]
      [] s = 1 -> [c EXCEPT !.mode = "COMPRESS"]
      [] s = 2 -> [spark(c) EXCEPT !.mode = "COMBUST"]
      [] s = 3 -> [exhaust(c) EXCEPT !.mode = "EXHAUST"]

\* The cylinders after the starter part of do_computer.
Started(dt) ==
    IF is_starting(starter_timer) THEN run_starter(cylinders, dt) ELSE cylinders

\* The cylinders after do_computer(dt).
AfterComputer(dt) ==
    LET started == Started(dt)
        fuel == fuel_volume(started, throttle)
    IN  [idx \in Cyls |->
            IF Handled(idx) THEN StageAction(started[idx], Stage(idx), fuel)
            ELSE started[idx]]

StagesAfterComputer ==
    [idx \in Cyls |-> IF Handled(idx) THEN Stage(idx) ELSE cylinder_stages[idx]]

TimerAfterComputer(dt) ==
    IF is_starting(starter_timer) THEN starter_timer - dt ELSE starter_timer

IssuedByComputer ==
    [idx \in Cyls |-> IF Handled(idx) THEN StageCall(Stage(idx)) ELSE "none"]

InjectedByComputer(dt) ==
    LET fuel == fuel_volume(Started(dt), throttle)
    IN  [idx \in Cyls |->
            IF Handled(idx) /\ Stage(idx) = 0
            THEN <<fuel, (fuel * stoichiometric_air_fuel_ratio_x10) \div 10>>
            ELSE <<>>]

\* The net torque Engine.simulate sums after the Cylinder.simulate loop.
NetMoment ==
    crank_moment(cylinders[0]) + crank_moment(cylinders[1])
    + crank_moment(cylinders[2]) + crank_moment(cylinders[3])

\* Engine.simulate: the final loop over the cylinders.
IntegratedVelocity(c, moment, dt) ==
    MulDiv(c.crank_angular_velocity + AngularVelocityDelta(moment, dt),
           friction_coefficient_x10, 10)

Init ==
    /\ cylinders = [i \in Cyls |-> [NewCylinder EXCEPT !.crank_rotation = InitialRotation(i)]]
    /\ cylinder_stages = [index \in Cyls |-> fire_order[index]]
    /\ starter_timer = 0
    /\ throttle = 0
    /\ pc = "idle"
    /\ deltaTime = 0
    /\ issued = [idx \in Cyls |-> "none"]
    /\ injected = [idx \in Cyls |-> <<>>]
    /\ since_start = -1
    /\ steps = 0
    /\ fired = [inject |-> 0, spark |-> 0, exhaust |-> 0, rotated |-> 0]

\* Engine.start
Start ==
    /\ pc = "idle"
    /\ starter_timer # starter_duration
    /\ starter_timer' = starter_duration
    /\ since_start' = 0
    /\ UNCHANGED <<cylinders, cylinder_stages, throttle, pc, deltaTime, issued,
                   injected, steps, fired>>

\* The driving loop's engine.throttle = v
SetThrottle(v) ==
    /\ pc = "idle"
    /\ throttle # v
    /\ throttle' = v
    /\ UNCHANGED <<cylinders, cylinder_stages, starter_timer, pc, deltaTime, issued,
                   injected, since_start, steps, fired>>

\* Engine.simulate(dt), first part: self.do_computer(deltaTime)
DoComputer(dt) ==
    /\ pc = "idle"
    /\ steps < MaxSteps
    /\ cylinders' = AfterComputer(dt)
    /\ cylinder_stages' = StagesAfterComputer
    /\ starter_timer' = TimerAfterComputer(dt)
    /\ issued' = IssuedByComputer
    /\ injected' = InjectedByComputer(dt)
    /\ since_start' = IF since_start >= 0 THEN since_start + dt ELSE since_start
    /\ deltaTime' = dt
    /\ pc' = "cylinders"
    /\ UNCHANGED <<throttle, steps, fired>>

\* Engine.simulate, second part: cylinder.simulate(deltaTime) for each cylinder
SimulateCylinders ==
    /\ pc = "cylinders"
    /\ \A i \in Cyls :
         Abs(cylinders[i].crank_rotation)
           + Abs(MulDiv(cylinders[i].crank_angular_velocity, deltaTime, 100)) <= MaxRotation
    /\ cylinders' = [i \in Cyls |-> cylinder_simulate(cylinders[i], deltaTime)]
    /\ pc' = "shaft"
    /\ UNCHANGED <<cylinder_stages, starter_timer, throttle, deltaTime, issued, injected,
                   since_start, steps, fired>>

\* Engine.simulate, last part: the net torque accelerates every cylinder, then
\* friction.
IntegrateShaft ==
    /\ pc = "shaft"
    /\ LET crank_moment_sum == NetMoment
       IN  /\ Abs(crank_moment_sum) <= MaxMoment
           /\ \A i \in Cyls :
                 Abs(cylinders[i].crank_angular_velocity)
                   + Abs(AngularVelocityDelta(crank_moment_sum, deltaTime)) <= MaxOmega
           /\ cylinders' = [i \in Cyls |->
                   [cylinders[i] EXCEPT !.crank_angular_velocity =
                       IntegratedVelocity(cylinders[i], crank_moment_sum, deltaTime)]]
    /\ pc' = "idle"
    /\ steps' = steps + 1
    /\ UNCHANGED <<cylinder_stages, starter_timer, throttle, deltaTime, issued, injected,
                   since_start, fired>>

Next ==
    \/ Start
    \/ \E v \in Throttles : SetThrottle(v)
    \/ \E dt \in DeltaTimes : DoComputer(dt)
    \/ SimulateCylinders
    \/ IntegrateShaft

Spec == Init /\ [][Next]_vars

\* ------------------------------------------------------- the cycle harness
\* Cylinder 0 driven at a constant angular velocity: each step is
\* engine.do_computer(dt) then engine.cylinders[0].simulate(dt) with dt = 1 s.
CycleDeltaTime == 1 * 100

\* The per-step advances tried: 1 .. PI - 1 angle units, all smaller than pi.
CycleAdvances == 1 .. (PI - 1)

CycleInit ==
    /\ \E w \in CycleAdvances :
         cylinders = [i \in Cyls |->
                        [NewCylinder EXCEPT !.crank_rotation = InitialRotation(i),
                                            !.crank_angular_velocity =
                                                IF i = 0 THEN w ELSE 0]]
    /\ cylinder_stages = [index \in Cyls |-> fire_order[index]]
    /\ starter_timer = 0
    /\ throttle \in Throttles
    /\ pc = "idle"
    /\ deltaTime = 0
    /\ issued = [idx \in Cyls |-> "none"]
    /\ injected = [idx \in Cyls |-> <<>>]
    /\ since_start = -1
    /\ steps = 0
    /\ fired = [inject |-> 0, spark |-> 0, exhaust |-> 0, rotated |-> 0]

CycleStep ==
    /\ pc = "idle"
    /\ fired.rotated < 4 * PI
    /\ cylinders' = [AfterComputer(CycleDeltaTime) EXCEPT
                        ![0] = cylinder_simulate(@, CycleDeltaTime)]
    /\ cylinder_stages' = StagesAfterComputer
    /\ starter_timer' = TimerAfterComputer(CycleDeltaTime)
    /\ issued' = IssuedByComputer
    /\ injected' = InjectedByComputer(CycleDeltaTime)
    /\ deltaTime' = CycleDeltaTime
    /\ steps' = steps + 1
    /\ fired' = [inject |-> fired.inject + (IF IssuedByComputer[0] = "inject" THEN 1 ELSE 0),
                 spark |-> fired.spark + (IF IssuedByComputer[0] = "spark" THEN 1 ELSE 0),
                 exhaust |-> fired.exhaust + (IF IssuedByComputer[0] = "exhaust" THEN 1 ELSE 0),
                 rotated |-> fired.rotated
                    + MulDiv(cylinders[0].crank_angular_velocity, CycleDeltaTime, 100)]
    /\ UNCHANGED <<throttle, pc, since_start>>

CycleSpec == CycleInit /\ [][CycleStep]_vars

\* ------------------------------------------------------------------ claims
DoComputerStep == pc = "idle" /\ pc' = "cylinders"

\* C1: in every Engine.simulate step, every cylinder whose computed stage
\* differs from its stored stage, or is EXHAUST, has its stored stage set to
\* the computed stage and that stage's call issued to it in that step.
C1_EveryCylinderSequenced ==
    [][DoComputerStep =>
        \A idx \in Cyls :
            (Stage(idx) # cylinder_stages[idx] \/ Stage(idx) = 3) =>
                /\ cylinder_stages'[idx] = Stage(idx)
                /\ issued'[idx] = StageCall(Stage(idx))]_vars

\* C2: cylinder 0, driven at a constant positive angular velocity with a
\* per-step advance smaller than pi, has after exactly one full 4 pi of
\* rotation been issued inject exactly once, spark exactly once and exhaust
\* at least once and at most once per step.
C2_OneCycleCounts ==
    fired.rotated = 4 * PI =>
        /\ fired.inject = 1
        /\ fired.spark = 1
        /\ fired.exhaust >= 1
        /\ fired.exhaust <= steps

\* C3: every cylinder's temperature is within [250, 4000] K after every
\* Cylinder.simulate and Engine.simulate call (and in every state between).
C3_TemperatureInRange ==
    \A i \in Cyls :
        /\ cylinders[i].temperature >= 250 * 100
        /\ cylinders[i].temperature <= 4000 * 100

\* A Cylinder.simulate call has just returned with a cylinder whose combustion
\* heated the gas past 4000 K and was clamped.
C3_Witness ==
    /\ pc = "shaft"
    /\ \E i \in Cyls :
         /\ cylinders[i].temperature = 4000 * 100
         /\ cylinders[i].combusting
         /\ cylinders[i].contents.exhaust >= 157

\* C4: the fuel, air and exhaust masses of every cylinder are never negative.
C4_MassesNonNegative ==
    \A i \in Cyls :
        /\ cylinders[i].contents.fuel >= 0
        /\ cylinders[i].contents.air >= 0
        /\ cylinders[i].contents.exhaust >= 0

\* A Cylinder.simulate call has just returned with a cylinder whose spark
\* burned the whole charge it held: burn limit above the fuel held, fuel and
\* air both used up.
C4_Witness ==
    /\ pc = "shaft"
    /\ deltaTime > 0
    /\ \E i \in Cyls :
         /\ cylinders[i].combusting
         /\ cylinders[i].mode = "COMBUST"
         /\ cylinders[i].contents.fuel = 0
         /\ cylinders[i].contents.air = 0
         /\ cylinders[i].contents.exhaust >= 157

\* C5: the volume at every crank rotation a cylinder takes lies in
\* [min_volume, min_volume + 2 * crank_radius * area].
C5_VolumeInRange ==
    \A i \in Cyls :
        /\ volume(cylinders[i].crank_rotation) >= min_volume
        /\ volume(cylinders[i].crank_rotation) <= min_volume + 2 * crank_radius * area

\* C6: in every state, also between the starter update and the shaft
\* integration of one step, all cylinders have the same angular velocity.
C6_SameVelocity ==
    \A i, j \in Cyls :
        cylinders[i].crank_angular_velocity = cylinders[j].crank_angular_velocity

\* A second or later step stands between its starter update and its shaft
\* integration, the starter having just accelerated a turning shaft.
C6_Witness ==
    /\ pc = "cylinders"
    /\ steps >= 1
    /\ deltaTime > 0
    /\ since_start >= 0
    /\ since_start - deltaTime < starter_duration
    /\ cylinders[0].crank_angular_velocity # 0
    /\ cylinders[3].crank_angular_velocity # 0

\* C7: every inject issued in a step passes the idle fuel quantity and 14.7
\* times it as air when the mean rpm the computer evaluated is below idle_rpm,
\* and fuel_volume_per_cycle * throttle (and 14.7 times it) otherwise.
C7_IdleGovernor ==
    pc = "cylinders" =>
        \A idx \in Cyls :
            issued[idx] = "inject" =>
                injected[idx] =
                    IF engine_rpm(cylinders) < idle_rpm
                    THEN <<idle_fuel_volume_per_cycle,
                           (idle_fuel_volume_per_cycle * 147) \div 10>>
                    ELSE <<fuel_volume_per_cycle * throttle,
                           (fuel_volume_per_cycle * throttle * 147) \div 10>>

\* An inject was issued at full throttle with the mean rpm below idle_rpm, and
\* passed the idle quantities.
C7_Witness ==
    /\ pc = "cylinders"
    /\ throttle = 1
    /\ engine_rpm(cylinders) < idle_rpm
    /\ \E idx \in Cyls :
         /\ issued[idx] = "inject"
         /\ injected[idx] = <<idle_fuel_volume_per_cycle, 147>>

C9_RotationWrapped ==
    pc \in {"shaft", "idle"} =>
        \A i \in Cyls :
            /\ cylinders[i].crank_rotation >= 0
            /\ cylinders[i].crank_rotation < 4 * PI

\* C10: in every state the stages the sequencer formula computes for the
\* four cylinders are pairwise distinct.
C10_StagesDistinct ==
    \A i, j \in Cyls : i # j => Stage(i) # Stage(j)

\* C11: a cylinder's fuel mass decreases only in an Engine.simulate step in
\* which the sequencer holds that cylinder in COMBUSTION (2), by the stage it
\* stores or by the stage its formula computes for the step.
C11_FuelBurnsOnlyInCombustion ==
    [][\A i \in Cyls :
          cylinders'[i].contents.fuel < cylinders[i].contents.fuel =>
              \/ cylinder_stages[i] = 2
              \/ Stage(i) = 2]_vars

====
